---- MODULE Spec2Model ----
(***************************************************************************)
(* A model of the analyst pipeline of finops-platform:                     *)
(*   analyst/summarize.py  top_sentences_tfidf  (sentence split, TF-IDF    *)
(*                         score, top-k selection in document order)       *)
(*   analyst/edgar.py      extract_section_texts (heading scan, sibling    *)
(*                         collection)                                     *)
(*   analyst/report.py     render_report, and cli.py main around it        *)
(*   analyst/edgar.py      ticker_to_cik (digits, cache file, live fetch,  *)
(*                         built-in table), latest_filing_meta and         *)
(*                         download_latest_primary_document_html           *)
(*   finops.py             main and the analyst fetch/summarize/report     *)
(*                         steps it dispatches to.                         *)
(*                                                                         *)
(* Strings are sequences of one-character strings, so that strip, split,   *)
(* lower/upper-casing, tokenisation and substring search are computed on   *)
(* characters the way the code computes them.                              *)
(***************************************************************************)
EXTENDS Integers, Sequences, FiniteSets, TLC

VARIABLES
    text,       \* top_sentences_tfidf: the argument, [none : BOOLEAN, chars : string]
    k,          \* top_sentences_tfidf: the argument k
    pc,         \* position inside top_sentences_tfidf
    stripped,   \* the local `text` after line 27
    sentences,  \* the local `sentences`
    scores,     \* the local `scores` (one entry per sentence)
    top_idx,    \* the local `top_idx` (1-based: numpy's index i is i + 1)
    result,     \* the returned list
    error,      \* the exception that left the function, "" when none
    html,       \* render_report: the parsed primary document
    rpc,        \* position inside cli.main / render_report
    sections,   \* render_report: the dict extract_section_texts returned
    mdna_top,   \* render_report: highlights of the MD&A section
    risk_top,   \* render_report: highlights of the risk section
    raised_in,  \* the section whose summarizer call raised, "" when none
    page,       \* the report page render_page wrote, NoPage when none
    exit_code,  \* what cli.main returned, -1 while it runs
    out_path,   \* what render_report returned to cli.main, "" before it returns
    stdout,     \* the "Wrote report: ..." line cli.main printed, "" when none
    call_no,    \* which of two identical direct summarizer calls is running
    first_out,  \* what the first of the two calls returned or raised
    argsort_memo, \* what np.argsort returned for each argument it was given
    symbol,     \* ticker_to_cik: the argument symbol_or_cik
    tpc,        \* position inside ticker_to_cik
    t_norm,     \* ticker_to_cik: the local `t`
    cached,     \* ticker_to_cik: the local `cached`
    fresh,      \* ticker_to_cik: the local `fresh`
    cache_file, \* the file data/company_tickers.json
    file_at_call, \* that file when the running call began
    cache_reads,  \* reads of the cache file by the running call
    net_requests, \* requests.get calls of the running call
    fetched,    \* how the live fetch of the running call ended
    saved,      \* how _save_cached_mapping of the running call ended
    resolved_by, \* the source the running call returned from
    t_ret,      \* what ticker_to_cik returned
    t_err,      \* the exception that left ticker_to_cik, "" when none
    calls_made, \* ticker_to_cik calls so far
    dl_meta,    \* download_latest_primary_document_html: the argument meta
    dpc,        \* position inside download_latest_primary_document_html
    dl_files,   \* the files of data/filings, by name
    dl_files_at_call, \* those files when the running call began
    dl_requests, \* requests.get calls of the running call
    dl_html,    \* the local `html`
    dl_ret,     \* the (local_path, html) the call returned
    dl_err,     \* the exception that left the call, "" when none
    dl_first,   \* per meta, what its first successful call returned
    dl_calls,   \* download calls so far
    os_name,    \* the platform: "posix" or "nt"
    recent,     \* latest_filing_meta: the parallel lists of filings.recent
    allowed_forms, \* latest_filing_meta: the argument allowed_forms
    lpc,        \* position inside latest_filing_meta
    lf_i,       \* the loop index i (0-based as in the code)
    lf_ret,     \* what latest_filing_meta returned
    lf_err,     \* the exception that left latest_filing_meta, "" when none
    argv,       \* finops.main: the parsed command line
    fpc,        \* position inside finops.main
    f_steps,    \* the pipeline steps that finished without error, in order
    f_err,      \* the exception finops.main caught or let through
    f_exit,     \* what finops.main returned, -1 while it runs
    f_stdout    \* what finops.main printed

sumVars == <<text, k, pc, stripped, sentences, scores, top_idx, result, error>>
repVars == <<html, rpc, sections, mdna_top, risk_top, raised_in, page, exit_code>>
outVars == <<out_path, stdout>>
twiceVars == <<call_no, first_out>>
tickVars == <<symbol, tpc, t_norm, cached, fresh, cache_file, file_at_call,
              cache_reads, net_requests, fetched, saved, resolved_by, t_ret,
              t_err, calls_made>>
dlVars == <<dl_meta, dpc, dl_files, dl_files_at_call, dl_requests, dl_html,
            dl_ret, dl_err, dl_first, dl_calls, os_name>>
metaVars == <<recent, allowed_forms, lpc, lf_i, lf_ret, lf_err>>
pipeVars == <<argv, fpc, f_steps, f_err, f_exit, f_stdout>>
otherVars == <<tickVars, dlVars, metaVars, pipeVars>>
vars == <<sumVars, repVars, outVars, twiceVars, argsort_memo, otherVars>>

(***************************************************************************)
(* Characters                                                              *)
(***************************************************************************)
UPPER == <<"A","B","C","D","E","F","G","H","I","J","K","L","M",
           "N","O","P","Q","R","S","T","U","V","W","X","Y","Z">>
LOWER == <<"a","b","c","d","e","f","g","h","i","j","k","l","m",
           "n","o","p","q","r","s","t","u","v","w","x","y","z">>
DIGITS == {"0","1","2","3","4","5","6","7","8","9"}

Range(f) == {f[i] : i \in DOMAIN f}

\* str.lower() / str.upper() on one character
LowerChar(c) ==
    IF \E i \in 1..26 : UPPER[i] = c
    THEN LOWER[CHOOSE i \in 1..26 : UPPER[i] = c]
    ELSE c
UpperChar(c) ==
    IF \E i \in 1..26 : LOWER[i] = c
    THEN UPPER[CHOOSE i \in 1..26 : LOWER[i] = c]
    ELSE c
ToLower(s) == [i \in 1..Len(s) |-> LowerChar(s[i])]
ToUpper(s) == [i \in 1..Len(s) |-> UpperChar(s[i])]

\* \s of the regular expressions and the characters str.strip()/str.split() drop
IsSpace(c) == c \in {" ", "\t", "\n"}
\* [.!?] of _SENT_SPLIT
IsSentEnd(c) == c \in {".", "!", "?"}
\* \w of the vectorizer's token pattern
IsWordChar(c) == c \in Range(UPPER) \cup Range(LOWER) \cup DIGITS \cup {"_"}

RECURSIVE LStrip(_)
LStrip(s) == IF s = <<>> THEN s
             ELSE IF IsSpace(Head(s)) THEN LStrip(Tail(s)) ELSE s
RECURSIVE RStrip(_)
RStrip(s) == IF s = <<>> THEN s
             ELSE IF IsSpace(s[Len(s)]) THEN RStrip(SubSeq(s, 1, Len(s) - 1)) ELSE s
\* Strip without the stripping
StripNothing(s) == s

\* str.strip()
Strip(s) == RStrip(LStrip(s))

(***************************************************************************)
(* Sentence splitting: _SENT_SPLIT = (?<=[.!?])\s+                         *)
(***************************************************************************)
\* first position >= i of s that holds no whitespace (Len(s)+1 when none)
RECURSIVE SkipSpace(_, _)
SkipSpace(s, i) == IF i <= Len(s) /\ IsSpace(s[i]) THEN SkipSpace(s, i + 1) ELSE i

\* re.split: a separator is a maximal whitespace run right after '.', '!' or '?'
RECURSIVE SplitFrom(_, _, _)
SplitFrom(s, i, cur) ==
    IF i > Len(s) THEN <<cur>>
    ELSE IF IsSpace(s[i]) /\ i > 1 /\ IsSentEnd(s[i - 1])
         THEN <<cur>> \o SplitFrom(s, SkipSpace(s, i), <<>>)
         ELSE SplitFrom(s, i + 1, Append(cur, s[i]))
SENT_SPLIT(s) == SplitFrom(s, 1, <<>>)

\* [s.strip() for s in _SENT_SPLIT.split(text) if s.strip()]
SplitSentences(s) ==
    LET frags == SENT_SPLIT(s)
        trimmed == [i \in 1..Len(frags) |-> Strip(frags[i])]
    IN SelectSeq(trimmed, LAMBDA f : f # <<>>)

(***************************************************************************)
(* TfidfVectorizer(stop_words=..., max_features=5000).fit_transform        *)
(* with the library defaults: lowercase=True, token_pattern                *)
(* (?u)\b\w\w+\b, ngram_range=(1,1), norm="l2", use_idf=True,              *)
(* smooth_idf=True, sublinear_tf=False.                                    *)
(***************************************************************************)
\* findall (?u)\b\w\w+\b : the maximal runs of word characters of length >= 2
RECURSIVE TokensFrom(_, _, _)
TokensFrom(s, i, cur) ==
    LET done == IF Len(cur) >= 2 THEN <<cur>> ELSE <<>>
    IN IF i > Len(s) THEN done
       ELSE IF IsWordChar(s[i]) THEN TokensFrom(s, i + 1, Append(cur, s[i]))
       ELSE done \o TokensFrom(s, i + 1, <<>>)
Tokenize(s) == TokensFrom(s, 1, <<>>)

\* stop_words="english": the entries of the library's list that the texts
\* of this model can contain
ENGLISH_STOP_WORDS ==
    { <<"o","n","e">>, <<"t","w","o">>, <<"t","h","r","e","e">>,
      <<"f","o","u","r">>, <<"f","i","v","e">>, <<"t","h","e">>,
      <<"a","n","d">>, <<"o","f">>, <<"t","o">>, <<"i","s">> }
\* stop_words=None
NO_STOP_WORDS == {}

\* build_analyzer: lowercase, tokenize, drop stop words
Analyze(s, stop) == SelectSeq(Tokenize(ToLower(s)), LAMBDA t : t \notin stop)

RECURSIVE SeqSum(_)
SeqSum(q) == IF q = <<>> THEN 0 ELSE Head(q) + SeqSum(Tail(q))

\* term frequency of t in one sentence
TermCount(toks, t) == Cardinality({i \in 1..Len(toks) : toks[i] = t})
\* total frequency of t over the corpus (X.sum(axis=0))
TotalCount(sents, stop, t) ==
    SeqSum([i \in 1..Len(sents) |-> TermCount(Analyze(sents[i], stop), t)])

max_features == 5000

\* _limit_features: keep the max_features terms of greatest total frequency
LimitFeatures(vocab, sents, stop) ==
    IF Cardinality(vocab) <= max_features THEN vocab
    ELSE CHOOSE S \in SUBSET vocab :
            /\ Cardinality(S) = max_features
            /\ \A t \in S, u \in vocab \ S :
                   TotalCount(sents, stop, t) >= TotalCount(sents, stop, u)

\* the fitted vocabulary_; fit_transform raises
\* ValueError("empty vocabulary; ...") when it is empty
Vocabulary(sents, stop) ==
    LimitFeatures(UNION {Range(Analyze(sents[i], stop)) : i \in 1..Len(sents)},
                  sents, stop)

\* round(100 * ln(m)), m = 1..40
LN100 == <<0, 69, 110, 139, 161, 179, 195, 208, 220, 230,
          240, 248, 256, 264, 271, 277, 283, 289, 294, 300,
          304, 309, 314, 318, 322, 326, 330, 333, 337, 340,
          343, 347, 350, 353, 356, 358, 361, 364, 366, 369>>

\* number of sentences that contain t
DocFreq(sents, stop, t) ==
    Cardinality({i \in 1..Len(sents) : t \in Range(Analyze(sents[i], stop))})

\* idf(t) = ln((1 + n) / (1 + df(t))) + 1, in hundredths
Idf(sents, stop, t) ==
    LN100[1 + Len(sents)] - LN100[1 + DocFreq(sents, stop, t)] + 100

\* One row of X summed (X.sum(axis=1)): the row holds tf*idf per vocabulary
\* term, divided by the row's Euclidean norm, so the sum is a / sqrt(b) with
\* a the sum and b the sum of squares of tf*idf.  The model keeps
\* 1000 * a^2 / b, an order-preserving image of it (0 for an empty row).
RowScore(sents, stop, vocab, i) ==
    LET toks == Analyze(sents[i], stop)
        first(j) == \A h \in 1..(j - 1) : toks[h] # toks[j]
        w == [j \in 1..Len(toks) |->
                 IF toks[j] \in vocab /\ first(j)
                 THEN TermCount(toks, toks[j]) * Idf(sents, stop, toks[j])
                 ELSE 0]
        a == SeqSum(w)
        b == SeqSum([j \in 1..Len(w) |-> w[j] * w[j]])
        \* floor(1000 * a^2 / b) by long division, three decimal digits
        r0 == (a * a) % b
        r1 == (r0 * 10) % b
        r2 == (r1 * 10) % b
    IN IF b = 0 THEN 0
       ELSE ((a * a) \div b) * 1000 + ((r0 * 10) \div b) * 100
            + ((r1 * 10) \div b) * 10 + ((r2 * 10) \div b)

\* _score_with_vectorizer
ScoreWithVectorizer(sents, stop) ==
    LET vocab == Vocabulary(sents, stop)
    IN [i \in 1..Len(sents) |-> RowScore(sents, stop, vocab, i)]

(***************************************************************************)
(* Top-k selection                                                         *)
(***************************************************************************)
\* len(seq[:n]) of Python for a sequence of length len, n of either sign
SliceLen(len, n) ==
    IF n >= 0 THEN (IF n < len THEN n ELSE len)
    ELSE (IF len + n > 0 THEN len + n ELSE 0)

\* np.argsort(-scores)[:n]: the first entries of an ordering of the indices
\* by descending score.  The default kind is "quicksort", which numpy
\* documents as not stable, so every ordering of equal scores is a possible
\* result.  Indices are 1-based here (numpy's index i is i + 1).
ArgsortTop(sc, n) ==
    LET m == SliceLen(Len(sc), n)
    IN {q \in [1..m -> 1..Len(sc)] :
           /\ \A i, j \in 1..m : i # j => q[i] # q[j]
           /\ \A i \in 1..(m - 1) : sc[q[i]] >= sc[q[i + 1]]
           /\ \A j \in 1..Len(sc) :
                  (\A i \in 1..m : q[i] # j) => \A i \in 1..m : sc[q[i]] >= sc[j]}

\* [s for i, s in enumerate(sentences) if i in keep]
KeepInOrder(sents, keep) ==
    LET idx == SelectSeq([i \in 1..Len(sents) |-> i], LAMBDA i : i \in keep)
    IN [j \in 1..Len(idx) |-> sents[idx[j]]]

(***************************************************************************)
(* Inputs of the summarizer                                                *)
(***************************************************************************)
MaxUnits == 4
MaxK == 3

\* the pieces the input texts are made of
Units == <<
    <<"C","a","s","h","."," ">>,
    <<"7","."," ">>,
    <<"D","e","b","t"," ">>,
    <<"4","2",".">>,
    <<" ">>,
    <<"O","n","e","?","\n">> >>

RECURSIVE Concat(_)
Concat(qs) == IF qs = <<>> THEN <<>> ELSE Head(qs) \o Concat(Tail(qs))

Texts ==
    UNION {{Concat([i \in 1..n |-> Units[f[i]]]) : f \in [1..n -> 1..Len(Units)]}
           : n \in 0..MaxUnits}

NoneText == [none |-> TRUE, chars |-> <<>>]
TextArgs == {NoneText} \cup {[none |-> FALSE, chars |-> t] : t \in Texts}

(***************************************************************************)
(* The parts of the program that a run does not enter                      *)
(***************************************************************************)
NoPage == [kind |-> "none"]
NoSections == [mdna |-> <<>>, risk |-> <<>>]
NoOutcome == [result |-> <<>>, error |-> "none yet"]
NoneMapping == [none |-> TRUE, map |-> <<>>]
AbsentFile == [kind |-> "absent"]

\* ticker_to_cik is not called
TickIdle ==
    /\ symbol = [none |-> TRUE, chars |-> <<>>] /\ tpc = "idle" /\ t_norm = <<>>
    /\ cached = NoneMapping /\ fresh = NoneMapping
    /\ cache_file = AbsentFile /\ file_at_call = AbsentFile
    /\ cache_reads = 0 /\ net_requests = 0
    /\ fetched = "no" /\ saved = "no" /\ resolved_by = ""
    /\ t_ret = <<>> /\ t_err = "" /\ calls_made = 0

\* download_latest_primary_document_html is not called
NoReturn == [none |-> TRUE]
DlIdle ==
    /\ dl_meta = <<>> /\ dpc = "idle" /\ dl_files = <<>> /\ dl_files_at_call = <<>>
    /\ dl_requests = 0 /\ dl_html = <<>> /\ dl_ret = NoReturn /\ dl_err = ""
    /\ dl_first = <<>> /\ dl_calls = 0 /\ os_name = "posix"

\* latest_filing_meta is not called
MetaIdle ==
    /\ recent = <<>> /\ allowed_forms = {} /\ lpc = "idle" /\ lf_i = 0
    /\ lf_ret = NoReturn /\ lf_err = ""

\* finops.main is not called
PipeIdle ==
    /\ argv = <<>> /\ fpc = "idle" /\ f_steps = <<>> /\ f_err = ""
    /\ f_exit = 0 - 1 /\ f_stdout = ""

OtherIdle == TickIdle /\ DlIdle /\ MetaIdle /\ PipeIdle

(***************************************************************************)
(* top_sentences_tfidf, one action per step                                *)
(***************************************************************************)

\* a direct call of top_sentences_tfidf(text, k), as the tests make it
SumInit ==
    /\ text \in TextArgs
    /\ k \in (0 - 1)..MaxK
    /\ pc = "call"
    /\ html = <<>> /\ rpc = "direct" /\ sections = NoSections
    /\ mdna_top = <<>> /\ risk_top = <<>> /\ raised_in = ""
    /\ page = NoPage /\ exit_code = 0 - 1
    /\ out_path = "" /\ stdout = ""
    /\ call_no = 1 /\ first_out = NoOutcome
    /\ argsort_memo = {}
    /\ OtherIdle
    /\ stripped = <<>>
    /\ sentences = <<>>
    /\ scores = <<>>
    /\ top_idx = <<>>
    /\ result = <<>>
    /\ error = ""

\* lines 27-29: text = (text or "").strip(); if not text: return []
StripText ==
    /\ pc = "call"
    /\ stripped' = Strip(IF text.none THEN <<>> ELSE text.chars)
    /\ pc' = IF stripped' = <<>> THEN "returned" ELSE "split"
    /\ result' = <<>>
    /\ UNCHANGED <<text, k, sentences, scores, top_idx, error>>
    /\ UNCHANGED <<repVars, outVars, twiceVars, argsort_memo, otherVars>>

\* Split with `len(sentences) < k` as the early-return test
SplitStrictlyFewer ==
    /\ pc = "split"
    /\ sentences' = SplitSentences(stripped)
    /\ IF Len(sentences') < k
       THEN pc' = "returned" /\ result' = sentences'
       ELSE pc' = "first_pass" /\ result' = result
    /\ UNCHANGED <<text, k, stripped, scores, top_idx, error>>
    /\ UNCHANGED <<repVars, outVars, twiceVars, argsort_memo, otherVars>>

\* lines 31-33: split; if len(sentences) <= k: return sentences
Split ==
    /\ pc = "split"
    /\ sentences' = SplitSentences(stripped)
    /\ IF Len(sentences') <= k
       THEN pc' = "returned" /\ result' = sentences'
       ELSE pc' = "first_pass" /\ result' = result
    /\ UNCHANGED <<text, k, stripped, scores, top_idx, error>>
    /\ UNCHANGED <<repVars, outVars, twiceVars, argsort_memo, otherVars>>

\* lines 41-47: score with stop_words="english"; an "empty vocabulary"
\* ValueError is caught and leads to the retry
FirstPass ==
    /\ pc = "first_pass"
    /\ IF Vocabulary(sentences, ENGLISH_STOP_WORDS) = {}
       THEN pc' = "retry" /\ scores' = scores
       ELSE /\ pc' = "select"
            /\ scores' = ScoreWithVectorizer(sentences, ENGLISH_STOP_WORDS)
    /\ UNCHANGED <<text, k, stripped, sentences, top_idx, result, error>>
    /\ UNCHANGED <<repVars, outVars, twiceVars, argsort_memo, otherVars>>

\* lines 49-50: score with stop_words=None, outside any try: a ValueError
\* of this second fit_transform leaves the function
Retry ==
    /\ pc = "retry"
    /\ IF Vocabulary(sentences, NO_STOP_WORDS) = {}
       THEN pc' = "raised" /\ error' = "ValueError" /\ scores' = scores
       ELSE /\ pc' = "select" /\ error' = error
            /\ scores' = ScoreWithVectorizer(sentences, NO_STOP_WORDS)
    /\ UNCHANGED <<text, k, stripped, sentences, top_idx, result>>
    /\ UNCHANGED <<repVars, outVars, twiceVars, argsort_memo, otherVars>>

\* Select with an argsort that may order equal scores differently every
\* time it is called
SelectAnyOrderEachCall ==
    /\ pc = "select"
    /\ \E top \in ArgsortTop(scores, k) :
          /\ top_idx' = top
          /\ result' = KeepInOrder(sentences, Range(top))
          /\ argsort_memo' = argsort_memo \cup {[sc |-> scores, n |-> k, top |-> top]}
    /\ pc' = "returned"
    /\ UNCHANGED <<text, k, stripped, sentences, scores, error>>
    /\ UNCHANGED <<repVars, outVars, twiceVars, otherVars>>

\* lines 53-57: top_idx = np.argsort(-scores)[:k]; keep; list in original order.
\* Which of the orderings of equal scores argsort returns is not specified,
\* but its sort is a fixed algorithm without randomness: in one process the
\* same argument gives the same ordering, which argsort_memo records.
Select ==
    /\ pc = "select"
    /\ \E top \in ArgsortTop(scores, k) :
          /\ \A e \in argsort_memo : (e.sc = scores /\ e.n = k) => e.top = top
          /\ top_idx' = top
          /\ result' = KeepInOrder(sentences, Range(top))
          /\ argsort_memo' = argsort_memo \cup {[sc |-> scores, n |-> k, top |-> top]}
    /\ pc' = "returned"
    /\ UNCHANGED <<text, k, stripped, sentences, scores, error>>
    /\ UNCHANGED <<repVars, outVars, twiceVars, otherVars>>

SumNext == StripText \/ Split \/ FirstPass \/ Retry \/ Select

SpecSummarize == SumInit /\ [][SumNext]_vars

\* the caller makes the same call again: top_sentences_tfidf(text, k) with the
\* arguments of the first call.  Every local of the function is new in the
\* second call (line 15); the module keeps no state between calls (its only
\* global, _SENT_SPLIT of line 12, is a compiled pattern).
CallAgain ==
    /\ rpc = "direct"
    /\ call_no = 1
    /\ pc \in {"returned", "raised"}
    /\ first_out' = [result |-> result, error |-> error]
    /\ call_no' = 2
    /\ pc' = "call"
    /\ stripped' = <<>> /\ sentences' = <<>> /\ scores' = <<>>
    /\ top_idx' = <<>> /\ result' = <<>> /\ error' = ""
    /\ UNCHANGED <<text, k, repVars, outVars, argsort_memo, otherVars>>

TwiceNext == SumNext \/ CallAgain

\* the texts of the calls that are made twice
MaxTwiceUnits == 3
TwiceTexts ==
    UNION {{Concat([i \in 1..n |-> Units[f[i]]]) : f \in [1..n -> 1..Len(Units)]}
           : n \in 0..MaxTwiceUnits}

TwiceInit == SumInit /\ (text.none \/ text.chars \in TwiceTexts)

SpecTwice == TwiceInit /\ [][TwiceNext]_vars

(***************************************************************************)
(* Properties of top_sentences_tfidf                                       *)
(***************************************************************************)
SumDone == pc \in {"returned", "raised"}

\* the sentences of the argument as the specification defines them: split at
\* whitespace that follows '.', '!' or '?', trim, drop the empty fragments
InputSentences == IF text.none THEN <<>> ELSE SplitSentences(text.chars)

NonEmptyText == ~text.none /\ text.chars # <<>>

\* res lists elements of sents at strictly increasing positions
IsOrderedSelection(res, sents) ==
    \E f \in [1..Len(res) -> 1..Len(sents)] :
        /\ \A j \in 1..Len(res) : res[j] = sents[f[j]]
        /\ \A j \in 1..(Len(res) - 1) : f[j] < f[j + 1]

\* C1: for every non-empty text with more than k sentences (k >= 0) the call
\* returns exactly k strings, each non-empty, each one of the split sentences,
\* in increasing order of sentence index.
C1_ReturnsExactlyK ==
    (SumDone /\ NonEmptyText /\ k >= 0 /\ Len(InputSentences) > k)
        => /\ error = ""
           /\ Len(result) = k
           /\ \A j \in 1..Len(result) : result[j] # <<>>
           /\ IsOrderedSelection(result, InputSentences)

\* every word of s (maximal run of word characters, of any length) is an
\* English stop word or a numeral
IsNumeral(w) == \A i \in 1..Len(w) : w[i] \in DIGITS
RECURSIVE WordsFrom(_, _, _)
WordsFrom(s, i, cur) ==
    LET done == IF cur # <<>> THEN <<cur>> ELSE <<>>
    IN IF i > Len(s) THEN done
       ELSE IF IsWordChar(s[i]) THEN WordsFrom(s, i + 1, Append(cur, s[i]))
       ELSE done \o WordsFrom(s, i + 1, <<>>)
OnlyStopwordsOrNumerals(s) ==
    \A w \in Range(WordsFrom(s, 1, <<>>)) :
        ToLower(w) \in ENGLISH_STOP_WORDS \/ IsNumeral(w)

\* C2: for every text made only of English stop words and numerals with more
\* than k sentences the call raises no error and returns exactly k sentences.
C2_StopwordTextNeverRaises ==
    (SumDone /\ NonEmptyText /\ OnlyStopwordsOrNumerals(text.chars)
             /\ k >= 0 /\ Len(InputSentences) > k)
        => error = "" /\ Len(result) = k

\* C3: for every text, k = 0 returns the empty list and raises no error.
C3_ZeroKReturnsEmpty ==
    (SumDone /\ k = 0) => error = "" /\ result = <<>>

\* the call went through the top-k selection
Selected == pc = "returned" /\ scores # <<>>

\* C4: the kept sentences are exactly the k indices of greatest Score, a tie
\* in Score going to the lower index: no unselected sentence scores more than
\* a selected one, or equal to a selected one while having a lower index.
C4_TopKTiesToLowerIndex ==
    (Selected /\ k >= 0)
        => /\ Cardinality(Range(top_idx)) = k
           /\ \A i \in Range(top_idx) :
                  \A j \in (1..Len(sentences)) \ Range(top_idx) :
                      /\ scores[j] <= scores[i]
                      /\ scores[j] = scores[i] => i < j

\* C5: for every non-empty text with at most k sentences the call returns the
\* whole sequence of split sentences in original order, and never scores or
\* ranks them.
C5_FewSentencesReturnedWhole ==
    (NonEmptyText /\ Len(InputSentences) <= k)
        => /\ pc \in {"call", "split", "returned"}
           /\ scores = <<>> /\ top_idx = <<>> /\ error = ""
           /\ SumDone => result = InputSentences

C5_Witness ==
    /\ pc = "returned" /\ NonEmptyText
    /\ Len(InputSentences) = 2 /\ k = 3
    /\ result = InputSentences

IsBlank(t) == t.none \/ \A i \in 1..Len(t.chars) : IsSpace(t.chars[i])

\* C6: for a text that is None, empty or only whitespace, and every k, the
\* call returns the empty list without error, and neither splits nor scores.
C6_BlankTextReturnsEmpty ==
    IsBlank(text)
        => /\ pc \in {"call", "returned"}
           /\ sentences = <<>> /\ scores = <<>> /\ error = ""
           /\ SumDone => result = <<>>

C6_Witness ==
    /\ pc = "returned" /\ ~text.none /\ Len(text.chars) >= 2 /\ IsBlank(text)
    /\ k < 0 /\ result = <<>>

(***************************************************************************)
(* The parsed document (BeautifulSoup tree): a text node holds a string,   *)
(* an element holds its children.  A node is named by its path from the    *)
(* root: <<i>> is the i-th top-level node, <<i, j>> its j-th child.        *)
(***************************************************************************)
Txt(c) == [tag |-> "#text", text |-> c, kids |-> <<>>]
El(t, kids) == [tag |-> t, text |-> <<>>, kids |-> kids]

HEADING_TAGS == {"h1", "h2", "h3", "h4", "h5", "h6"}

\* sep.join(parts)
RECURSIVE Join(_, _)
Join(parts, sep) ==
    IF parts = <<>> THEN <<>>
    ELSE IF Len(parts) = 1 THEN parts[1]
    ELSE parts[1] \o sep \o Join(Tail(parts), sep)

\* str.split(): the maximal runs of non-whitespace characters
RECURSIVE SplitWSFrom(_, _, _)
SplitWSFrom(s, i, cur) ==
    LET done == IF cur # <<>> THEN <<cur>> ELSE <<>>
    IN IF i > Len(s) THEN done
       ELSE IF IsSpace(s[i]) THEN done \o SplitWSFrom(s, i + 1, <<>>)
       ELSE SplitWSFrom(s, i + 1, Append(cur, s[i]))
SplitWS(s) == SplitWSFrom(s, 1, <<>>)

\* " ".join(s.split())
NormalizeWS(s) == Join(SplitWS(s), <<" ">>)

\* the strings below a node, in document order
RECURSIVE Strings(_)
Strings(n) ==
    IF n.tag = "#text" THEN <<n.text>>
    ELSE Concat([i \in 1..Len(n.kids) |-> Strings(n.kids[i])])

\* node.get_text(" ", strip=True): the stripped, non-empty strings, joined
GetText(n) ==
    LET strs == Strings(n)
        st == [i \in 1..Len(strs) |-> Strip(strs[i])]
    IN Join(SelectSeq(st, LAMBDA x : x # <<>>), <<" ">>)

\* the paths of all nodes below a list of siblings, in document order
RECURSIVE PathsFrom(_, _, _)
PathsFrom(nodes, prefix, i) ==
    IF i > Len(nodes) THEN <<>>
    ELSE <<Append(prefix, i)>>
         \o PathsFrom(nodes[i].kids, Append(prefix, i), 1)
         \o PathsFrom(nodes, prefix, i + 1)

\* the children of the node at a path (the top-level nodes for <<>>)
RECURSIVE KidsAt(_, _)
KidsAt(nodes, path) ==
    IF path = <<>> THEN nodes ELSE KidsAt(nodes[Head(path)].kids, Tail(path))
NodeAt(doc, path) == KidsAt(doc, SubSeq(path, 1, Len(path) - 1))[path[Len(path)]]

\* soup.find_all(["h1", ..., "h6"])
FindAllHeadings(doc) ==
    SelectSeq(PathsFrom(doc, <<>>, 1), LAMBDA p : NodeAt(doc, p).tag \in HEADING_TAGS)

\* " ".join(tag.get_text(" ", strip=True).split()).upper()
HeadingUpper(doc, p) == ToUpper(NormalizeWS(GetText(NodeAt(doc, p))))

\* sub in s
Contains(s, sub) ==
    \E i \in 0..(Len(s) - Len(sub)) : SubSeq(s, i + 1, i + Len(sub)) = sub

ITEM_7 == <<"I","T","E","M"," ","7">>
MANAGEMENT == <<"M","A","N","A","G","E","M","E","N","T">>
ITEM_1A == <<"I","T","E","M"," ","1","A">>
RISK == <<"R","I","S","K">>

\* FirstHeadingWith with `or` between the two marker tests
FirstHeadingWithEither(doc, m1, m2) ==
    LET hs == FindAllHeadings(doc)
        hit(i) == Contains(HeadingUpper(doc, hs[i]), m1)
                  \/ Contains(HeadingUpper(doc, hs[i]), m2)
    IN IF \E i \in 1..Len(hs) : hit(i)
       THEN hs[CHOOSE i \in 1..Len(hs) : hit(i) /\ \A j \in 1..(i - 1) : ~hit(j)]
       ELSE <<>>

\* lines 262-268: the first heading whose text holds both markers; <<>> is None
FirstHeadingWith(doc, m1, m2) ==
    LET hs == FindAllHeadings(doc)
        hit(i) == Contains(HeadingUpper(doc, hs[i]), m1)
                  /\ Contains(HeadingUpper(doc, hs[i]), m2)
    IN IF \E i \in 1..Len(hs) : hit(i)
       THEN hs[CHOOSE i \in 1..Len(hs) : hit(i) /\ \A j \in 1..(i - 1) : ~hit(j)]
       ELSE <<>>

\* start_tag.next_siblings
NextSiblings(doc, p) ==
    LET sibs == KidsAt(doc, SubSeq(p, 1, Len(p) - 1))
    IN SubSeq(sibs, p[Len(p)] + 1, Len(sibs))

\* PartsUntilHeading with a break at h1 and h2 only
RECURSIVE PartsUntilMajorHeading(_)
PartsUntilMajorHeading(sibs) ==
    IF sibs = <<>> THEN <<>>
    ELSE IF Head(sibs).tag \in {"h1", "h2"} THEN <<>>
    ELSE <<GetText(Head(sibs))>> \o PartsUntilMajorHeading(Tail(sibs))

\* the loop of lines 274-279: the texts of the siblings before the first
\* sibling that is a heading element
RECURSIVE PartsUntilHeading(_)
PartsUntilHeading(sibs) ==
    IF sibs = <<>> THEN <<>>
    ELSE IF Head(sibs).tag \in HEADING_TAGS THEN <<>>
    ELSE <<GetText(Head(sibs))>> \o PartsUntilHeading(Tail(sibs))

\* _collect_until_next_heading
CollectUntilNextHeading(doc, start) ==
    IF start = <<>> THEN <<>>
    ELSE NormalizeWS(Join(PartsUntilHeading(NextSiblings(doc, start)), <<" ">>))

\* extract_section_texts
ExtractSectionTexts(doc) ==
    [mdna |-> CollectUntilNextHeading(doc, FirstHeadingWith(doc, ITEM_7, MANAGEMENT)),
     risk |-> CollectUntilNextHeading(doc, FirstHeadingWith(doc, ITEM_1A, RISK))]

(***************************************************************************)
(* Documents                                                               *)
(***************************************************************************)
MaxNodes == 4

H_MDNA == El("h2", <<Txt(<<"I","t","e","m"," ","7","."," ","M","a","n","a","g","e","m","e","n","t">>)>>)
H_RISK == El("h2", <<Txt(<<" ","i","t","e","m"," "," ","1","a","\n","R","i","s","k"," ">>)>>)
H_SUB == El("h3", <<Txt(<<"R","i","s","k"," ","n","o","t","e","s">>)>>)
P_CASH == El("p", <<Txt(<<"C","a","s","h"," ","r","o","s","e","."," ","D","e","b","t"," ","f","e","l","l",".">>)>>)
P_NUM == El("p", <<Txt(<<"7","."," ","7","."," ","7","."," ","7",".">>)>>)
D_RISK == El("div", <<H_RISK, Txt(<<"\n"," ","N","e","t"," "," ","l","o","s","s",".","\n">>), El("p", <<Txt(<<"O","n","e","."," ","T","w","o",".">>)>>)>>)

NodePool == <<H_MDNA, H_RISK, H_SUB, P_CASH, P_NUM, D_RISK>>

Documents ==
    UNION {{[i \in 1..n |-> NodePool[f[i]]] : f \in [1..n -> 1..Len(NodePool)]}
           : n \in 0..MaxNodes}

(***************************************************************************)
(* cli.main -> analyst.report.render_report                                *)
(***************************************************************************)
\* k=3 of both summarizer calls of render_report
REPORT_K == 3

\* report_template.py lines 19-21 and 63 with module_slug "analyst" and the
\* default base_path ".": the file render_page writes
INDEX_HTML == "analyst/docs/index.html"

\* render_page has no return statement (its annotation is -> None): str() of
\* what a call of it returns
RenderPageReturn == "None"

\* cli.py line 42
WROTE_REPORT == "Wrote report: "

\* _fmt_list
FmtList(items) ==
    IF items = <<>> THEN [kind |-> "em", items |-> <<>>]
    ELSE [kind |-> "ul", items |-> items]
NoHighlights == [kind |-> "em", items |-> <<>>]

\* `finops analyst TICKER`; the filing's primary document is html
RepInit ==
    /\ html \in Documents
    /\ rpc = "start"
    /\ sections = NoSections
    /\ mdna_top = <<>> /\ risk_top = <<>> /\ raised_in = ""
    /\ page = NoPage /\ exit_code = 0 - 1
    /\ out_path = "" /\ stdout = ""
    /\ call_no = 0 /\ first_out = NoOutcome
    /\ argsort_memo = {}
    /\ OtherIdle
    /\ text = NoneText /\ k = 0 /\ pc = "idle"
    /\ stripped = <<>> /\ sentences = <<>> /\ scores = <<>>
    /\ top_idx = <<>> /\ result = <<>> /\ error = ""

\* report.py lines 18-25: meta = latest_filing_meta(ticker), which returns a
\* filing, returns None (a page saying so is written) or raises
FetchMeta ==
    /\ rpc = "start"
    /\ \E outcome \in {"found", "none", "raises"} :
          /\ rpc' = CASE outcome = "found" -> "download"
                      [] outcome = "none" -> "rendered"
                      [] OTHER -> "failed"
          /\ page' = IF outcome = "none" THEN [kind |-> "no_filing"] ELSE page
          /\ out_path' = IF outcome = "none" THEN RenderPageReturn ELSE out_path
    /\ UNCHANGED <<html, sections, mdna_top, risk_top, raised_in, exit_code, stdout>>
    /\ UNCHANGED <<sumVars, twiceVars, argsort_memo, otherVars>>

\* report.py line 28: download_latest_primary_document_html(meta) returns the
\* document or raises (missing keys, HTTP error)
Download ==
    /\ rpc = "download"
    /\ \E ok \in BOOLEAN : rpc' = IF ok THEN "extract" ELSE "failed"
    /\ UNCHANGED <<html, sections, mdna_top, risk_top, raised_in, page, exit_code>>
    /\ UNCHANGED <<sumVars, outVars, twiceVars, argsort_memo, otherVars>>

\* report.py lines 29-32
ExtractSections ==
    /\ rpc = "extract"
    /\ sections' = ExtractSectionTexts(html)
    /\ rpc' = "call_mdna"
    /\ UNCHANGED <<html, mdna_top, risk_top, raised_in, page, exit_code>>
    /\ UNCHANGED <<sumVars, outVars, twiceVars, argsort_memo, otherVars>>

\* report.py lines 34 and 35: top_sentences_tfidf(mdna, k=3), (risk, k=3)
CallSummarizer ==
    /\ rpc \in {"call_mdna", "call_risk"}
    /\ text' = [none |-> FALSE,
                chars |-> IF rpc = "call_mdna" THEN sections.mdna ELSE sections.risk]
    /\ k' = REPORT_K
    /\ pc' = "call"
    /\ stripped' = <<>> /\ sentences' = <<>> /\ scores' = <<>>
    /\ top_idx' = <<>> /\ result' = <<>> /\ error' = ""
    /\ rpc' = IF rpc = "call_mdna" THEN "in_mdna" ELSE "in_risk"
    /\ UNCHANGED <<html, sections, mdna_top, risk_top, raised_in, page, exit_code>>
    /\ UNCHANGED <<outVars, twiceVars, argsort_memo, otherVars>>

\* the call returns its list, or its exception leaves render_report, which
\* has no handler around either call
ReturnFromSummarizer ==
    /\ rpc \in {"in_mdna", "in_risk"}
    /\ pc \in {"returned", "raised"}
    /\ IF pc = "raised"
       THEN /\ rpc' = "failed"
            /\ raised_in' = IF rpc = "in_mdna" THEN "mdna" ELSE "risk"
            /\ UNCHANGED <<mdna_top, risk_top>>
       ELSE /\ rpc' = IF rpc = "in_mdna" THEN "call_risk" ELSE "render"
            /\ mdna_top' = IF rpc = "in_mdna" THEN result ELSE mdna_top
            /\ risk_top' = IF rpc = "in_risk" THEN result ELSE risk_top
            /\ UNCHANGED raised_in
    /\ pc' = "idle"
    /\ UNCHANGED <<html, sections, page, exit_code>>
    /\ UNCHANGED <<text, k, stripped, sentences, scores, top_idx, result, error>>
    /\ UNCHANGED <<outVars, twiceVars, argsort_memo, otherVars>>

\* report.py lines 37-66: format both lists and write the page
RenderPage ==
    /\ rpc = "render"
    /\ page' = [kind |-> "report", mdna |-> FmtList(mdna_top), risk |-> FmtList(risk_top)]
    /\ out_path' = RenderPageReturn
    /\ rpc' = "rendered"
    /\ UNCHANGED <<html, sections, mdna_top, risk_top, raised_in, exit_code, stdout>>
    /\ UNCHANGED <<sumVars, twiceVars, argsort_memo, otherVars>>

\* cli.py lines 39-49: print the returned value and return 0 after
\* render_report returned, return 1 after any exception
Exit ==
    /\ rpc \in {"rendered", "failed"}
    /\ exit_code' = IF rpc = "rendered" THEN 0 ELSE 1
    /\ stdout' = IF rpc = "rendered" THEN WROTE_REPORT \o out_path ELSE stdout
    /\ rpc' = "exit"
    /\ UNCHANGED <<html, sections, mdna_top, risk_top, raised_in, page, out_path>>
    /\ UNCHANGED <<sumVars, twiceVars, argsort_memo, otherVars>>

RepNext ==
    \/ FetchMeta \/ Download \/ ExtractSections \/ CallSummarizer
    \/ ReturnFromSummarizer \/ RenderPage \/ Exit
    \/ SumNext

SpecReport == RepInit /\ [][RepNext]_vars

\* every entry point: a direct summarizer call, or a report run
Init == SumInit \/ RepInit
Spec == Init /\ [][RepNext]_vars

(***************************************************************************)
(* Properties of extract_section_texts and render_report                   *)
(***************************************************************************)
\* extract_section_texts has just returned its dict (report.py line 29)
Extracted == rpc = "call_mdna"

\* the section headings extract_section_texts chose (<<>> when none)
MdnaStart == FirstHeadingWith(html, ITEM_7, MANAGEMENT)
RiskStart == FirstHeadingWith(html, ITEM_1A, RISK)

\* the words (whitespace-separated) of all strings below a node
NodeWords(n) ==
    LET strs == Strings(n) IN Concat([i \in 1..Len(strs) |-> SplitWS(strs[i])])

IsPrefixPath(p, q) == Len(p) <= Len(q) /\ SubSeq(q, 1, Len(p)) = p

\* the words of the text nodes that follow the heading at `start` in document
\* order, up to the next heading element of the document (at any depth)
RECURSIVE WordsToNextHeading(_, _, _)
WordsToNextHeading(doc, paths, i) ==
    IF i > Len(paths) THEN <<>>
    ELSE LET n == NodeAt(doc, paths[i])
         IN IF n.tag \in HEADING_TAGS THEN <<>>
            ELSE (IF n.tag = "#text" THEN SplitWS(n.text) ELSE <<>>)
                 \o WordsToNextHeading(doc, paths, i + 1)
DocWordsAfter(doc, start) ==
    LET paths == SelectSeq(PathsFrom(doc, <<>>, 1), LAMBDA p : ~IsPrefixPath(start, p))
        at == Cardinality({i \in 1..Len(paths) :
                  \E j \in 1..Len(start) :
                      /\ j <= Len(paths[i])
                      /\ SubSeq(paths[i], 1, j - 1) = SubSeq(start, 1, j - 1)
                      /\ paths[i][j] < start[j]})
    IN WordsToNextHeading(doc, paths, at + 1)

\* C7: with both section headings present, each section's text is the
\* whitespace-normalized text that follows its heading and stops before the
\* next heading element (h1-h6) that follows it in the document: it holds no
\* text of that heading nor of anything after it.
C7_SectionStopsAtNextHeading ==
    (Extracted /\ MdnaStart # <<>> /\ RiskStart # <<>>)
        => /\ sections.mdna = NormalizeWS(sections.mdna)
           /\ sections.risk = NormalizeWS(sections.risk)
           /\ SplitWS(sections.mdna) = DocWordsAfter(html, MdnaStart)
           /\ SplitWS(sections.risk) = DocWordsAfter(html, RiskStart)

\* h1 is the highest level
Level(tag) == CASE tag = "h1" -> 1 [] tag = "h2" -> 2 [] tag = "h3" -> 3
                [] tag = "h4" -> 4 [] tag = "h5" -> 5 [] tag = "h6" -> 6
                [] OTHER -> 7

\* the words of the siblings before the first sibling whose tag is in `stops`
RECURSIVE SiblingWordsUntil(_, _)
SiblingWordsUntil(sibs, stops) ==
    IF sibs = <<>> THEN <<>>
    ELSE IF Head(sibs).tag \in stops THEN <<>>
    ELSE NodeWords(Head(sibs)) \o SiblingWordsUntil(Tail(sibs), stops)

SameOrHigher(doc, start) ==
    {t \in HEADING_TAGS : Level(t) <= Level(NodeAt(doc, start).tag)}

\* C8 as stated: a section ends only at the next sibling heading of the same
\* or a higher level than its own heading; content after a lower-level
\* sibling heading still belongs to the section.
C8_EndsAtSameOrHigherLevel ==
    Extracted =>
        /\ MdnaStart # <<>> =>
              SplitWS(sections.mdna) =
                  SiblingWordsUntil(NextSiblings(html, MdnaStart), SameOrHigher(html, MdnaStart))
        /\ RiskStart # <<>> =>
              SplitWS(sections.risk) =
                  SiblingWordsUntil(NextSiblings(html, RiskStart), SameOrHigher(html, RiskStart))

\* C8 as amended: a section ends at the next sibling heading of any level
\* (h1-h6): its text is the single-spaced words of the siblings between its
\* heading and that heading, and nothing after it.
C8_EndsAtAnySiblingHeading ==
    Extracted =>
        /\ sections.mdna = NormalizeWS(sections.mdna)
        /\ sections.risk = NormalizeWS(sections.risk)
        /\ MdnaStart # <<>> =>
              SplitWS(sections.mdna) =
                  SiblingWordsUntil(NextSiblings(html, MdnaStart), HEADING_TAGS)
        /\ RiskStart # <<>> =>
              SplitWS(sections.risk) =
                  SiblingWordsUntil(NextSiblings(html, RiskStart), HEADING_TAGS)

\* an h2 section heading, content, an h3 sub-heading, more content: the
\* section holds the content before the h3 only
C8_Witness ==
    /\ Extracted /\ MdnaStart # <<>>
    /\ NodeAt(html, MdnaStart).tag = "h2"
    /\ LET sibs == NextSiblings(html, MdnaStart)
       IN /\ Len(sibs) = 3
          /\ sibs[1].tag = "p" /\ sibs[2].tag = "h3" /\ sibs[3].tag = "p"
          /\ NodeWords(sibs[3]) # <<>>
          /\ sections.mdna # <<>>
          /\ SplitWS(sections.mdna) = NodeWords(sibs[1])

\* C9: when the summarizer raises for one section, render_report still writes
\* the report page and omits the highlights of the failing section only.
C9_ReportDegradesGracefully ==
    (rpc = "exit" /\ raised_in # "")
        => /\ page.kind = "report"
           /\ page[raised_in] = NoHighlights
           /\ exit_code = 0

\* some heading element of the document carries both markers
Carries(doc, m1, m2) ==
    \E p \in Range(PathsFrom(doc, <<>>, 1)) :
        /\ NodeAt(doc, p).tag \in HEADING_TAGS
        /\ Contains(ToUpper(NormalizeWS(GetText(NodeAt(doc, p)))), m1)
        /\ Contains(ToUpper(NormalizeWS(GetText(NodeAt(doc, p)))), m2)
Missing(key) ==
    /\ rpc # "direct"
    /\ IF key = "mdna" THEN ~Carries(html, ITEM_7, MANAGEMENT)
       ELSE ~Carries(html, ITEM_1A, RISK)
TopOf(key) == IF key = "mdna" THEN mdna_top ELSE risk_top

\* C10: when no heading carries a section's markers, both keys are returned
\* with the empty string for that section, the summarizer returns the empty
\* list for the empty string whatever k is, no error is raised for that
\* section, and the written report shows "No highlights found." for it.
C10_MissingSectionIsEmptyNotError ==
    /\ \A key \in {"mdna", "risk"} :
          \/ /\ DOMAIN sections = {"mdna", "risk"}
             /\ sections[key] = <<>>
             /\ rpc = (IF key = "mdna" THEN "in_mdna" ELSE "in_risk")
                   => /\ text.chars = <<>>
                      /\ pc \in {"call", "returned"}
                      /\ error = "" /\ result = <<>>
             /\ raised_in # key
             /\ TopOf(key) = <<>>
             /\ page.kind = "report" => page[key] = NoHighlights
          \/ ~Missing(key)
    /\ (rpc = "direct" /\ ~text.none /\ text.chars = <<>>)
          => pc \in {"call", "returned"} /\ error = "" /\ result = <<>>

C10_Witness ==
    /\ rpc = "exit" /\ exit_code = 0
    /\ Missing("mdna") /\ ~Missing("risk")
    /\ page.kind = "report"
    /\ page.mdna = NoHighlights /\ page.risk.kind = "ul"


(***************************************************************************)
(* Two identical calls of top_sentences_tfidf                              *)
(***************************************************************************)
\* the second of the two calls has returned or raised
SecondDone == call_no = 2 /\ pc \in {"returned", "raised"}

ReportWritten == rpc = "exit" /\ exit_code = 0

\* C15: on both paths render_report returns the path of the file render_page
\* wrote, which is what cli.main prints after "Wrote report: "; it does not
\* return None
C15_ReturnsWrittenPath ==
    ReportWritten => (out_path = INDEX_HTML /\ stdout = WROTE_REPORT \o INDEX_HTML)

(***************************************************************************)
(* analyst/edgar.py: ticker -> CIK resolution                              *)
(***************************************************************************)
\* the width pad_cik_to_10_digits pads to
CIK_WIDTH == 10

\* re.sub(r"[^A-Za-z0-9]", "", ticker or "").upper()
NormalizeTickerSymbol(s) ==
    ToUpper(SelectSeq(s, LAMBDA c : c \in Range(UPPER) \cup Range(LOWER) \cup DIGITS))

\* str.zfill: zeros on the left up to the width, after a leading sign
RECURSIVE Zfill(_, _)
Zfill(s, width) ==
    IF Len(s) >= width THEN s
    ELSE IF s # <<>> /\ Head(s) \in {"+", "-"}
         THEN <<Head(s)>> \o Zfill(Tail(s), width - 1)
         ELSE Zfill(<<"0">> \o s, width)

\* str(cik).zfill(10)
PadCikTo10Digits(cik) == Zfill(cik, CIK_WIDTH)

\* _CIK_RE = ^\d{1,10}$ matched against a stripped string
CIK_RE(s) == Len(s) \in 1..CIK_WIDTH /\ \A i \in 1..Len(s) : s[i] \in DIGITS

\* a dict of ticker -> CIK as the sequence of its items; the last item of a
\* key is the one the dict holds
Has(map, key) == \E i \in 1..Len(map) : map[i].t = key
Get(map, key) ==
    map[CHOOSE i \in 1..Len(map) :
            map[i].t = key /\ \A j \in (i + 1)..Len(map) : map[j].t # key].cik

BUILTIN_CIK_FALLBACK == <<
    [t |-> <<"A","A","P","L">>, cik |-> <<"0","0","0","0","3","2","0","1","9","3">>],
    [t |-> <<"M","S","F","T">>, cik |-> <<"0","0","0","0","7","8","9","0","1","9">>],
    [t |-> <<"A","M","Z","N">>, cik |-> <<"0","0","0","1","0","1","8","7","2","4">>],
    [t |-> <<"G","O","O","G","L">>, cik |-> <<"0","0","0","1","6","5","2","0","4","4">>],
    [t |-> <<"T","S","L","A">>, cik |-> <<"0","0","0","1","3","1","8","6","0","5">>] >>

\* _load_cached_mapping: None when the file is absent, cannot be read or does
\* not parse to a dict; else keys upper-cased and values zero-padded
LoadCachedMapping(file) ==
    IF file.kind # "json" THEN NoneMapping
    ELSE [none |-> FALSE,
          map |-> [i \in 1..Len(file.map) |->
                      [t |-> ToUpper(file.map[i].t),
                       cik |-> Zfill(file.map[i].cik, CIK_WIDTH)]]]

\* _fetch_sec_ticker_mapping, lines 119-123: out[str(ticker).upper()] = padded
FetchedMapping(payload) ==
    [i \in 1..Len(payload) |->
        [t |-> ToUpper(payload[i].t), cik |-> PadCikTo10Digits(payload[i].cik)]]

\* the arguments of the calls
Symbols == {
    [none |-> TRUE, chars |-> <<>>],
    [none |-> FALSE, chars |-> <<" ","a","a","p","l"," ">>],
    [none |-> FALSE, chars |-> <<"b","r","k",".","b">>],
    [none |-> FALSE, chars |-> <<" ","3","2","0","1","9","3","\n">>],
    [none |-> FALSE, chars |-> <<"1","2","3","4","5","6","7","8","9","0","1">>],
    [none |-> FALSE, chars |-> <<"Z","Z">>] }

\* ticker/CIK items of a cache file found on disk or of the SEC payload
ITEM_AAPL == [t |-> <<"a","a","p","l">>, cik |-> <<"3","2","0","1","9","3">>]
ITEM_BRKB == [t |-> <<"B","R","K","B">>, cik |-> <<"1","0","6","7","9","8","3">>]
ITEM_BRK_B == [t |-> <<"B","R","K","-","B">>, cik |-> <<"1","0","6","7","9","8","3">>]
Payloads == {<<>>, <<ITEM_AAPL>>, <<ITEM_BRKB>>, <<ITEM_BRK_B, ITEM_AAPL>>}

CorruptFile == [kind |-> "corrupt"]
JsonFile(map) == [kind |-> "json", map |-> map]
CacheFiles == {AbsentFile, CorruptFile} \cup {JsonFile(m) : m \in Payloads}

\* neither cli.main nor top_sentences_tfidf runs
AnalystIdle ==
    /\ html = <<>> /\ rpc = "idle" /\ sections = NoSections
    /\ mdna_top = <<>> /\ risk_top = <<>> /\ raised_in = ""
    /\ page = NoPage /\ exit_code = 0 - 1
    /\ out_path = "" /\ stdout = ""
    /\ call_no = 0 /\ first_out = NoOutcome
    /\ argsort_memo = {}
    /\ text = NoneText /\ k = 0 /\ pc = "idle"
    /\ stripped = <<>> /\ sentences = <<>> /\ scores = <<>>
    /\ top_idx = <<>> /\ result = <<>> /\ error = ""

analystVars == <<sumVars, repVars, outVars, twiceVars, argsort_memo>>
tickRest == <<analystVars, dlVars, metaVars, pipeVars>>

\* how many ticker_to_cik calls one process makes
MaxCalls == 2

\* the first call of ticker_to_cik(symbol_or_cik); the cache file is whatever
\* an earlier process left
TickInit ==
    /\ symbol \in Symbols
    /\ tpc = "call"
    /\ cache_file \in CacheFiles
    /\ file_at_call = cache_file
    /\ t_norm = <<>> /\ cached = NoneMapping /\ fresh = NoneMapping
    /\ cache_reads = 0 /\ net_requests = 0
    /\ fetched = "no" /\ saved = "no" /\ resolved_by = ""
    /\ t_ret = <<>> /\ t_err = "" /\ calls_made = 1
    /\ AnalystIdle /\ DlIdle /\ MetaIdle /\ PipeIdle

\* lines 136-141: strip; a 1-10 digit string is padded and returned, anything
\* else is normalised to the ticker t
TickStart ==
    /\ tpc = "call"
    /\ LET s == Strip(IF symbol.none THEN <<>> ELSE symbol.chars)
       IN IF CIK_RE(s)
          THEN /\ t_ret' = PadCikTo10Digits(s)
               /\ resolved_by' = "digits"
               /\ tpc' = "returned"
               /\ t_norm' = t_norm
          ELSE /\ t_norm' = NormalizeTickerSymbol(s)
               /\ tpc' = "load"
               /\ UNCHANGED <<t_ret, resolved_by>>
    /\ UNCHANGED <<symbol, cached, fresh, cache_file, file_at_call, cache_reads,
                   net_requests, fetched, saved, t_err, calls_made>>
    /\ UNCHANGED tickRest

\* lines 143-146: cached = _load_cached_mapping(); a hit returns cached[t]
LoadCache ==
    /\ tpc = "load"
    /\ cached' = LoadCachedMapping(cache_file)
    /\ cache_reads' = cache_reads + (IF cache_file = AbsentFile THEN 0 ELSE 1)
    /\ IF ~cached'.none /\ cached'.map # <<>> /\ Has(cached'.map, t_norm)
       THEN /\ t_ret' = Get(cached'.map, t_norm)
            /\ resolved_by' = "cache"
            /\ tpc' = "returned"
       ELSE /\ tpc' = "fetch"
            /\ UNCHANGED <<t_ret, resolved_by>>
    /\ UNCHANGED <<symbol, t_norm, fresh, cache_file, file_at_call, net_requests,
                   fetched, saved, t_err, calls_made>>
    /\ UNCHANGED tickRest

\* line 149: fresh = _fetch_sec_ticker_mapping(): one requests.get, which
\* fails (no connection, HTTP error status, payload of another shape) or
\* gives a mapping; a failure is caught at line 153
Fetch ==
    /\ tpc = "fetch"
    /\ net_requests' = net_requests + 1
    /\ \/ \E failure \in {"network_error", "http_error", "malformed"} :
             /\ fetched' = failure
             /\ tpc' = "builtin"
             /\ fresh' = fresh
       \/ \E payload \in Payloads :
             /\ fetched' = "ok"
             /\ fresh' = [none |-> FALSE, map |-> FetchedMapping(payload)]
             /\ tpc' = "save"
    /\ UNCHANGED <<symbol, t_norm, cached, cache_file, file_at_call, cache_reads,
                   saved, resolved_by, t_ret, t_err, calls_made>>
    /\ UNCHANGED tickRest

\* Save that writes the file only when the fetched mapping has the ticker
SaveOnlyWhenFound ==
    /\ tpc = "save"
    /\ \E outcome \in {"ok", "open_fails", "write_fails"} :
          /\ saved' = outcome
          /\ cache_file' = CASE outcome = "ok" ->
                                  IF Has(fresh.map, t_norm) THEN JsonFile(fresh.map)
                                  ELSE cache_file
                              [] outcome = "open_fails" -> cache_file
                              [] OTHER -> CorruptFile
          /\ IF outcome = "ok" /\ Has(fresh.map, t_norm)
             THEN /\ t_ret' = Get(fresh.map, t_norm)
                  /\ resolved_by' = "fetch"
                  /\ tpc' = "returned"
             ELSE /\ tpc' = "builtin"
                  /\ UNCHANGED <<t_ret, resolved_by>>
    /\ UNCHANGED <<symbol, t_norm, cached, fresh, file_at_call, cache_reads,
                   net_requests, fetched, t_err, calls_made>>
    /\ UNCHANGED tickRest

\* lines 150-155, inside the try: _save_cached_mapping(fresh) and then the
\* lookup in fresh.  write_text replaces the whole file; it can fail before
\* the file is opened (the file is as it was) or after it was truncated, and
\* the handler of line 153 catches that too, so the lookup is skipped
Save ==
    /\ tpc = "save"
    /\ \E outcome \in {"ok", "open_fails", "write_fails"} :
          /\ saved' = outcome
          /\ cache_file' = CASE outcome = "ok" -> JsonFile(fresh.map)
                              [] outcome = "open_fails" -> cache_file
                              [] OTHER -> CorruptFile
          /\ IF outcome = "ok" /\ Has(fresh.map, t_norm)
             THEN /\ t_ret' = Get(fresh.map, t_norm)
                  /\ resolved_by' = "fetch"
                  /\ tpc' = "returned"
             ELSE /\ tpc' = "builtin"
                  /\ UNCHANGED <<t_ret, resolved_by>>
    /\ UNCHANGED <<symbol, t_norm, cached, fresh, file_at_call, cache_reads,
                   net_requests, fetched, t_err, calls_made>>
    /\ UNCHANGED tickRest

\* lines 158-161: the built-in table, else ValueError
Builtin ==
    /\ tpc = "builtin"
    /\ IF Has(BUILTIN_CIK_FALLBACK, t_norm)
       THEN /\ t_ret' = Get(BUILTIN_CIK_FALLBACK, t_norm)
            /\ resolved_by' = "builtin"
            /\ tpc' = "returned"
            /\ t_err' = t_err
       ELSE /\ t_err' = "ValueError"
            /\ tpc' = "raised"
            /\ UNCHANGED <<t_ret, resolved_by>>
    /\ UNCHANGED <<symbol, t_norm, cached, fresh, cache_file, file_at_call,
                   cache_reads, net_requests, fetched, saved, calls_made>>
    /\ UNCHANGED tickRest

\* the process calls ticker_to_cik again, with the cache file as the calls
\* before left it
NextCall ==
    /\ tpc \in {"returned", "raised"}
    /\ calls_made < MaxCalls
    /\ symbol' \in Symbols
    /\ tpc' = "call"
    /\ file_at_call' = cache_file
    /\ t_norm' = <<>> /\ cached' = NoneMapping /\ fresh' = NoneMapping
    /\ cache_reads' = 0 /\ net_requests' = 0
    /\ fetched' = "no" /\ saved' = "no" /\ resolved_by' = ""
    /\ t_ret' = <<>> /\ t_err' = ""
    /\ calls_made' = calls_made + 1
    /\ UNCHANGED cache_file
    /\ UNCHANGED tickRest

TickNext == TickStart \/ LoadCache \/ Fetch \/ Save \/ Builtin \/ NextCall

SpecTicker == TickInit /\ [][TickNext]_vars

(***************************************************************************)
(* Properties of ticker_to_cik                                             *)
(***************************************************************************)
\* the running call has returned or raised
TickDone == tpc \in {"returned", "raised"}

\* the argument as the call sees it
ArgStripped == Strip(IF symbol.none THEN <<>> ELSE symbol.chars)
ArgIsCik == CIK_RE(ArgStripped)
ArgTicker == NormalizeTickerSymbol(ArgStripped)

\* the readable cache, as it was when the call began, has the ticker
InCache ==
    LET c == LoadCachedMapping(file_at_call)
    IN ~c.none /\ Has(c.map, ArgTicker)
\* the live fetch gave a mapping that has the ticker
InFetched == fetched = "ok" /\ Has(fresh.map, ArgTicker)
InBuiltin == Has(BUILTIN_CIK_FALLBACK, ArgTicker)

\* C12: fixed priority order, each later source only after every earlier one
\* failed: (1) 1-10 digits are zero-padded with no cache read and no request;
\* (2) else a ticker in the readable cache comes from the cache with no
\* request; (3) else exactly one fetch is made and its CIK is returned when the
\* ticker is in it; (4) only then the built-in table is used
C12_FixedPriorityOrder ==
    TickDone =>
        /\ ArgIsCik =>
               /\ t_ret = Zfill(ArgStripped, CIK_WIDTH) /\ resolved_by = "digits"
               /\ cache_reads = 0 /\ net_requests = 0
        /\ (~ArgIsCik /\ InCache) =>
               /\ t_ret = Get(LoadCachedMapping(file_at_call).map, ArgTicker)
               /\ resolved_by = "cache" /\ net_requests = 0
        /\ (~ArgIsCik /\ ~InCache) =>
               /\ net_requests = 1
               /\ InFetched => (t_ret = Get(fresh.map, ArgTicker) /\ resolved_by = "fetch")
        /\ resolved_by = "builtin" => (~ArgIsCik /\ ~InCache /\ ~InFetched)

\* C13: ValueError exactly when the argument is not 1-10 digits and its ticker
\* is in none of cache, fetched mapping and built-in table; no other exception
\* leaves the call, and a failed fetch or a corrupt cache file still leads to
\* the built-in table
C13_ValueErrorIffUnresolvable ==
    TickDone =>
        /\ t_err \in {"", "ValueError"}
        /\ t_err = "ValueError" <=>
               (~ArgIsCik /\ ~InCache /\ ~InFetched /\ ~InBuiltin)
        /\ (~ArgIsCik /\ ~InCache /\ ~InFetched /\ InBuiltin) =>
               (t_ret = Get(BUILTIN_CIK_FALLBACK, ArgTicker) /\ resolved_by = "builtin")

\* C18 as stated: the cache file is modified only by a call whose fetch
\* succeeded and then holds exactly the fetched mapping; calls that resolve by
\* digits, cache hit or built-in table, and calls whose fetch fails, leave it
\* unchanged
C18_CacheWrittenOnlyByFetch ==
    TickDone =>
        /\ cache_file # file_at_call => fetched = "ok"
        /\ fetched = "ok" => cache_file = JsonFile(fresh.map)
        /\ (resolved_by \in {"digits", "cache", "builtin"} \/ fetched # "ok") =>
               cache_file = file_at_call

\* C18 amended: the cache file is modified only by a call whose fetch
\* succeeded; when that call's write succeeds the file holds exactly the
\* fetched mapping, also when the call then resolves by the built-in table;
\* when the write fails the file is as it was or truncated; calls that resolve
\* by digits or cache hit, and calls whose fetch fails, leave it unchanged
C18_CacheWrittenBySuccessfulSave ==
    TickDone =>
        /\ cache_file # file_at_call => fetched = "ok"
        /\ (fetched = "ok" /\ saved = "ok") => cache_file = JsonFile(fresh.map)
        /\ (fetched = "ok" /\ saved # "ok") => cache_file \in {file_at_call, CorruptFile}
        /\ (resolved_by \in {"digits", "cache"} \/ fetched # "ok") =>
               cache_file = file_at_call

\* a later call of a sequence fetched a mapping without the ticker, replaced
\* the cache file with it and resolved by the built-in table
C18_Witness ==
    /\ TickDone /\ calls_made = MaxCalls
    /\ fetched = "ok" /\ saved = "ok" /\ resolved_by = "builtin"
    /\ file_at_call.kind = "json"
    /\ cache_file # file_at_call
    /\ cache_file = JsonFile(fresh.map)

\* C19: when the cache does not resolve the ticker and the fetched mapping has
\* it, the call returns the fetched CIK whether or not the cache file could be
\* written
C19_FetchedResultSurvivesSaveFailure ==
    (TickDone /\ ~ArgIsCik /\ ~InCache /\ InFetched) =>
        (t_err = "" /\ t_ret = Get(fresh.map, ArgTicker))

(***************************************************************************)
(* analyst/edgar.py: download_latest_primary_document_html                 *)
(***************************************************************************)
dlRest == <<analystVars, tickVars, metaVars, pipeVars>>

\* str.replace("-", "")
NoDashes(s) == SelectSeq(s, LAMBDA c : c # "-")

\* line 231: f"{ticker}_{form}_{accession without dashes}_{primary}".lower()
FName(meta) ==
    ToLower(meta.ticker \o <<"_">> \o meta.form \o <<"_">>
            \o NoDashes(meta.accessionNumber) \o <<"_">> \o meta.primaryDocument)

\* line 225: cik and accession and primary
KeysPresent(meta) ==
    meta.cik # <<>> /\ meta.accessionNumber # <<>> /\ meta.primaryDocument # <<>>

\* the metas of the calls: two filings, and one without primaryDocument
META_Q == [ticker |-> <<"A","A","P","L">>, form |-> <<"1","0","-","Q">>, cik |-> <<"0","0","0","0","3","2","0","1","9","3">>,
           accessionNumber |-> <<"1","-","2","4","-","1">>, primaryDocument |-> <<"q",".","h","t","m">>]
META_K == [ticker |-> <<"A","A","P","L">>, form |-> <<"1","0","-","K">>, cik |-> <<"0","0","0","0","3","2","0","1","9","3">>,
           accessionNumber |-> <<"1","-","2","4","-","2">>, primaryDocument |-> <<"K",".","h","t","m">>]
META_NO_DOC == [ticker |-> <<"A","A","P","L">>, form |-> <<"1","0","-","K">>, cik |-> <<"0","0","0","0","3","2","0","1","9","3">>,
                accessionNumber |-> <<"1","-","2","4","-","3">>, primaryDocument |-> <<>>]
Metas == {META_Q, META_K, META_NO_DOC}
FNames == {FName(m) : m \in {m \in Metas : KeysPresent(m)}}

\* documents the server sends, with the line ends SEC documents come with
HTML_CRLF == <<"<","p",">","\r","\n","7">>
HTML_LF == <<"<","p",">","\n","7">>
HTML_ONE_LINE == <<"<","p",">">>
Htmls == {HTML_CRLF, HTML_LF, HTML_ONE_LINE}

NoFile == [exists |-> FALSE, content |-> <<>>]
File(content) == [exists |-> TRUE, content |-> content]

\* Path.write_text(html, encoding="utf-8"): text mode with newline=None writes
\* "\n" as os.linesep and everything else as it is
RECURSIVE WriteText(_, _)
WriteText(str, os) ==
    IF str = <<>> THEN <<>>
    ELSE IF Head(str) = "\n" /\ os = "nt"
         THEN <<"\r", "\n">> \o WriteText(Tail(str), os)
         ELSE <<Head(str)>> \o WriteText(Tail(str), os)

\* Path.read_text(encoding="utf-8"): text mode with newline=None reads
\* "\r\n" and "\r" as "\n" (universal newlines)
RECURSIVE ReadText(_)
ReadText(bytes) ==
    IF bytes = <<>> THEN <<>>
    ELSE IF Head(bytes) = "\r"
         THEN IF Len(bytes) >= 2 /\ bytes[2] = "\n"
              THEN <<"\n">> \o ReadText(Tail(Tail(bytes)))
              ELSE <<"\n">> \o ReadText(Tail(bytes))
         ELSE <<Head(bytes)>> \o ReadText(Tail(bytes))

\* how many download calls one process makes
MaxDownloads == 2

\* the first call; data/filings holds what earlier processes left
DlInit ==
    /\ dl_meta \in Metas
    /\ dpc = "call"
    /\ dl_files \in [FNames -> {NoFile, File(HTML_ONE_LINE), File(HTML_CRLF)}]
    /\ dl_files_at_call = dl_files
    /\ dl_requests = 0 /\ dl_html = <<>> /\ dl_ret = NoReturn /\ dl_err = ""
    /\ dl_first = [m \in Metas |-> NoReturn]
    /\ dl_calls = 1
    /\ os_name \in {"posix", "nt"}
    /\ AnalystIdle /\ TickIdle /\ MetaIdle /\ PipeIdle

\* lines 222-228: ValueError when cik, accessionNumber or primaryDocument is
\* missing
DlStart ==
    /\ dpc = "call"
    /\ IF KeysPresent(dl_meta)
       THEN dpc' = "exists" /\ dl_err' = dl_err
       ELSE dpc' = "raised" /\ dl_err' = "ValueError"
    /\ UNCHANGED <<dl_meta, dl_files, dl_files_at_call, dl_requests, dl_html,
                   dl_ret, dl_first, dl_calls, os_name>>
    /\ UNCHANGED dlRest

\* lines 234-236: an existing file is read and returned
DlReadCached ==
    /\ dpc = "exists"
    /\ IF dl_files[FName(dl_meta)].exists
       THEN /\ dl_html' = ReadText(dl_files[FName(dl_meta)].content)
            /\ dl_ret' = [none |-> FALSE, path |-> FName(dl_meta), html |-> dl_html']
            /\ dpc' = "returned"
       ELSE /\ dpc' = "get"
            /\ UNCHANGED <<dl_html, dl_ret>>
    /\ UNCHANGED <<dl_meta, dl_files, dl_files_at_call, dl_requests, dl_err,
                   dl_first, dl_calls, os_name>>
    /\ UNCHANGED dlRest

\* lines 238-240: one requests.get; a connection error or an HTTP error
\* status leaves the function
DlGet ==
    /\ dpc = "get"
    /\ dl_requests' = dl_requests + 1
    /\ \/ \E failure \in {"ConnectionError", "HTTPError"} :
             /\ dl_err' = failure
             /\ dpc' = "raised"
             /\ dl_html' = dl_html
       \/ \E doc \in Htmls :
             /\ dl_html' = doc
             /\ dpc' = "write"
             /\ dl_err' = dl_err
    /\ UNCHANGED <<dl_meta, dl_files, dl_files_at_call, dl_ret, dl_first,
                   dl_calls, os_name>>
    /\ UNCHANGED dlRest

\* lines 241-242: write the file and return the downloaded text; write_text
\* can fail before the file exists or after it was created empty
DlWrite ==
    /\ dpc = "write"
    /\ \E outcome \in {"ok", "open_fails", "write_fails"} :
          /\ dl_files' =
                 CASE outcome = "ok" ->
                          [dl_files EXCEPT ![FName(dl_meta)] = File(WriteText(dl_html, os_name))]
                   [] outcome = "open_fails" -> dl_files
                   [] OTHER -> [dl_files EXCEPT ![FName(dl_meta)] = File(<<>>)]
          /\ IF outcome = "ok"
             THEN /\ dl_ret' = [none |-> FALSE, path |-> FName(dl_meta), html |-> dl_html]
                  /\ dpc' = "returned"
                  /\ dl_err' = dl_err
             ELSE /\ dl_err' = "OSError"
                  /\ dpc' = "raised"
                  /\ dl_ret' = dl_ret
    /\ UNCHANGED <<dl_meta, dl_files_at_call, dl_requests, dl_html, dl_first,
                   dl_calls, os_name>>
    /\ UNCHANGED dlRest

\* the process calls again; dl_first keeps what the first successful call
\* with each meta returned
DlNextCall ==
    /\ dpc \in {"returned", "raised"}
    /\ dl_calls < MaxDownloads
    /\ dl_first' = IF dpc = "returned" /\ dl_first[dl_meta] = NoReturn
                   THEN [dl_first EXCEPT ![dl_meta] = dl_ret]
                   ELSE dl_first
    /\ dl_meta' \in Metas
    /\ dpc' = "call"
    /\ dl_files_at_call' = dl_files
    /\ dl_requests' = 0 /\ dl_html' = <<>> /\ dl_ret' = NoReturn /\ dl_err' = ""
    /\ dl_calls' = dl_calls + 1
    /\ UNCHANGED <<dl_files, os_name>>
    /\ UNCHANGED dlRest

DlNext == DlStart \/ DlReadCached \/ DlGet \/ DlWrite \/ DlNextCall

SpecDownload == DlInit /\ [][DlNext]_vars

\* the running download call has returned or raised
DlDone == dpc \in {"returned", "raised"}

\* C14: per filing, an existing cache file is returned with no request and
\* left unchanged; otherwise exactly one request is made and on success the
\* file is written; after one successful call every later call with the same
\* meta makes no request and returns the same (path, html)
C14_DownloadCachedPerFiling ==
    (DlDone /\ KeysPresent(dl_meta)) =>
        LET before == dl_files_at_call[FName(dl_meta)]
        IN /\ before.exists =>
                  /\ dl_requests = 0 /\ dl_err = ""
                  /\ dl_ret.html = ReadText(before.content)
                  /\ dl_files = dl_files_at_call
           /\ ~before.exists =>
                  /\ dl_requests = 1
                  /\ dl_err = "" => dl_files[FName(dl_meta)].exists
           /\ dl_first[dl_meta] # NoReturn =>
                  (dl_requests = 0 /\ dl_ret = dl_first[dl_meta])

(***************************************************************************)
(* analyst/edgar.py: latest_filing_meta                                    *)
(***************************************************************************)
metaRest == <<analystVars, tickVars, dlVars, pipeVars>>

\* how many filings the "recent" lists of a payload hold
MaxFilings == 3

FORM_10Q == <<"1","0","-","Q">>
FORM_10K == <<"1","0","-","K">>
FORM_8K == <<"8","-","K">>
Forms == {FORM_10Q, FORM_10K, FORM_8K}
\* the default of the parameter allowed_forms
DEFAULT_ALLOWED_FORMS == {FORM_10Q, FORM_10K}

\* the entry of filing j (1-based) in each of the other lists
AccessionOf(j) == <<"1", "-", "2", "4", "-">> \o <<CHOOSE d \in DIGITS : d = ToString(j)>>
FilingDateOf(j) == <<"f">> \o <<ToString(j)>>
ReportDateOf(j) == <<"r">> \o <<ToString(j)>>
PrimaryDocOf(j) == <<"d">> \o <<ToString(j)>> \o <<".", "h", "t", "m">>

\* filings.recent of a submissions payload: the form list and, of each other
\* list, the entries the payload has (a missing or null list has none); the
\* two date lists are taken to be equally long
Recents ==
    UNION {
        {[form |-> f,
          accessionNumber |-> [j \in 1..na |-> AccessionOf(j)],
          filingDate |-> [j \in 1..nf |-> FilingDateOf(j)],
          reportDate |-> [j \in 1..nf |-> ReportDateOf(j)],
          primaryDocument |-> [j \in 1..np |-> PrimaryDocOf(j)]]
         : f \in [1..n -> Forms], na \in 0..n, nf \in 0..n, np \in 0..n}
        : n \in 0..MaxFilings}

None == <<"N", "o", "n", "e">>

\* lst[i] if i < len(lst) else None, for the 0-based i of the code
ItemOrNone(lst, i) == IF i < Len(lst) THEN lst[i + 1] ELSE None

\* latest_filing_meta(cik) with the CIK resolved; the payload is what the
\* submissions endpoint holds
MetaInit ==
    /\ recent \in Recents
    /\ allowed_forms \in {DEFAULT_ALLOWED_FORMS, {FORM_8K}}
    /\ lpc = "get"
    /\ lf_i = 0
    /\ lf_ret = NoReturn /\ lf_err = ""
    /\ AnalystIdle /\ TickIdle /\ DlIdle /\ PipeIdle

\* lines 175-186: the request for the submissions payload fails or gives it
GetSubmissions ==
    /\ lpc = "get"
    /\ \E ok \in BOOLEAN :
          IF ok THEN lpc' = "loop" /\ lf_err' = lf_err
          ELSE lpc' = "raised" /\ lf_err' = "HTTPError"
    /\ UNCHANGED <<recent, allowed_forms, lf_i, lf_ret>>
    /\ UNCHANGED metaRest

\* lines 188-203, one iteration of `for i, form in enumerate(forms)`: the
\* first allowed form returns its entry; accessions[i] (line 190) is read
\* without the length test the other lists get, so a shorter accession list
\* raises IndexError; after the last form, None is returned
LoopStep ==
    /\ lpc = "loop"
    /\ IF lf_i >= Len(recent.form)
       THEN /\ lf_ret' = [none |-> FALSE, meta |-> None]
            /\ lpc' = "returned"
            /\ UNCHANGED <<lf_i, lf_err>>
       ELSE IF recent.form[lf_i + 1] \in allowed_forms
            THEN IF lf_i >= Len(recent.accessionNumber)
                 THEN /\ lf_err' = "IndexError"
                      /\ lpc' = "raised"
                      /\ UNCHANGED <<lf_i, lf_ret>>
                 ELSE /\ lf_ret' =
                             [none |-> FALSE,
                              meta |-> [form |-> recent.form[lf_i + 1],
                                        filingDate |-> ItemOrNone(recent.filingDate, lf_i),
                                        reportDate |-> ItemOrNone(recent.reportDate, lf_i),
                                        accessionNumber |-> recent.accessionNumber[lf_i + 1],
                                        primaryDocument |-> ItemOrNone(recent.primaryDocument, lf_i),
                                        filingDetailUrl |->
                                            NoDashes(recent.accessionNumber[lf_i + 1])]]
                      /\ lpc' = "returned"
                      /\ UNCHANGED <<lf_i, lf_err>>
            ELSE /\ lf_i' = lf_i + 1
                 /\ UNCHANGED <<lpc, lf_ret, lf_err>>
    /\ UNCHANGED <<recent, allowed_forms>>
    /\ UNCHANGED metaRest

MetaNext == GetSubmissions \/ LoopStep

SpecFilingMeta == MetaInit /\ [][MetaNext]_vars

\* latest_filing_meta has returned or raised after the payload was fetched
MetaDone == lpc \in {"returned", "raised"} /\ lf_err # "HTTPError"

\* the 1-based indices of the entries whose form is allowed
AllowedAt == {j \in 1..Len(recent.form) : recent.form[j] \in allowed_forms}
Lowest(js) == CHOOSE j \in js : \A h \in js : j <= h

\* C16: whatever the lengths of the parallel lists, the call returns the
\* metadata of the lowest-index entry with an allowed form, or None when there
\* is none, and never raises because a list is shorter than the form list
C16_LowestAllowedEntryOrNone ==
    MetaDone =>
        /\ lf_err = ""
        /\ AllowedAt = {} => lf_ret.meta = None
        /\ AllowedAt # {} =>
               /\ lf_ret.meta # None
               /\ lf_ret.meta.form = recent.form[Lowest(AllowedAt)]
               /\ lf_ret.meta.filingDate = ItemOrNone(recent.filingDate, Lowest(AllowedAt) - 1)
               /\ lf_ret.meta.primaryDocument =
                      ItemOrNone(recent.primaryDocument, Lowest(AllowedAt) - 1)

(***************************************************************************)
(* finops.py: the unified entry point                                      *)
(***************************************************************************)
pipeRest == <<analystVars, tickVars, dlVars, metaVars>>

\* the callables each analyst module has: its functions and the classes it
\* imports
EDGAR_CALLABLES ==
    {"normalize_ticker_symbol", "pad_cik_to_10_digits", "build_company_submissions_url",
     "_cache_path", "_load_cached_mapping", "_save_cached_mapping",
     "_fetch_sec_ticker_mapping", "ticker_to_cik", "latest_filing_meta",
     "build_primary_document_url", "download_latest_primary_document_html",
     "extract_section_texts", "FilingMeta", "Path", "BeautifulSoup", "TypedDict"}
SUMMARIZE_CALLABLES == {"top_sentences_tfidf", "TfidfVectorizer"}
REPORT_CALLABLES ==
    {"render_report", "latest_filing_meta", "download_latest_primary_document_html",
     "extract_section_texts", "top_sentences_tfidf", "render_page", "Path"}

\* the parameters of analyst.report.render_report (report.py line 17)
RENDER_REPORT_PARAMS == {"ticker"}

\* the names the three steps look for, in order
FETCH_NAMES == <<"fetch_filings", "fetch", "run", "main">>
SUMMARIZE_NAMES == <<"summarize", "run", "main">>
REPORT_NAMES == <<"render_report", "build", "run", "main">>

\* try_get_attr: the first of the names that is a callable of the module,
\* "" (None) when there is none
TryGetAttr(callables, names) ==
    IF \E i \in 1..Len(names) : names[i] \in callables
    THEN names[CHOOSE i \in 1..Len(names) :
                   names[i] \in callables /\ \A j \in 1..(i - 1) : names[j] \notin callables]
    ELSE ""

\* the keyword arguments analyst_report passes (lines 191-193)
REPORT_KWARGS == {"input_path", "output_path", "template"}

\* -v given at most this often
MaxVerbose == 2

\* the command lines: config show, and analyst fetch/summarize/report/run
Argvs ==
    [cmd : {"config show", "analyst fetch", "analyst summarize", "analyst report",
            "analyst run"},
     verbose : 0..MaxVerbose,
     ticker : {"", "AAPL"},
     cik : {"", "0000320193"},
     output : {"docs/analyst/index.html", "out.html"}]

PipeInit ==
    /\ argv \in Argvs
    /\ fpc = "start"
    /\ f_steps = <<>> /\ f_err = "" /\ f_exit = 0 - 1 /\ f_stdout = ""
    /\ AnalystIdle /\ TickIdle /\ DlIdle /\ MetaIdle

\* lines 347-403: parse, set up logging, load the config (its errors are
\* caught inside load_platform_config), and go to the command's branch
Dispatch ==
    /\ fpc = "start"
    /\ fpc' = CASE argv.cmd = "config show" -> "config"
                [] argv.cmd \in {"analyst fetch", "analyst run"} -> "fetch"
                [] argv.cmd = "analyst summarize" -> "summarize"
                [] OTHER -> "report"
    /\ UNCHANGED <<argv, f_steps, f_err, f_exit, f_stdout>>
    /\ UNCHANGED pipeRest

\* lines 355-363
ConfigShow ==
    /\ fpc = "config"
    /\ f_stdout' = "Detected FinOps configuration (subset):"
    /\ f_exit' = 0
    /\ fpc' = "exit"
    /\ UNCHANGED <<argv, f_steps, f_err>>
    /\ UNCHANGED pipeRest

\* analyst_fetch (lines 140-157), called by `analyst fetch` (367-376) and
\* as step 1 of analyst_run_pipeline (222-230)
AnalystFetch ==
    /\ fpc = "fetch"
    /\ IF TryGetAttr(EDGAR_CALLABLES, FETCH_NAMES) = ""
       THEN /\ f_err' = "AttributeError"
            /\ fpc' = "except"
            /\ UNCHANGED <<f_steps, f_exit>>
       ELSE /\ f_steps' = Append(f_steps, "fetch")
            /\ f_err' = f_err
            /\ IF argv.cmd = "analyst run"
               THEN fpc' = "summarize" /\ f_exit' = f_exit
               ELSE fpc' = "exit" /\ f_exit' = 0
    /\ UNCHANGED <<argv, f_stdout>>
    /\ UNCHANGED pipeRest

\* analyst_summarize (lines 165-172), called by `analyst summarize`
\* (378-381) and as step 2 of analyst_run_pipeline (233)
AnalystSummarize ==
    /\ fpc = "summarize"
    /\ IF TryGetAttr(SUMMARIZE_CALLABLES, SUMMARIZE_NAMES) = ""
       THEN /\ f_err' = "AttributeError"
            /\ fpc' = "except"
            /\ UNCHANGED <<f_steps, f_exit>>
       ELSE /\ f_steps' = Append(f_steps, "summarize")
            /\ f_err' = f_err
            /\ IF argv.cmd = "analyst run"
               THEN fpc' = "report" /\ f_exit' = f_exit
               ELSE fpc' = "exit" /\ f_exit' = 0
    /\ UNCHANGED <<argv, f_stdout>>
    /\ UNCHANGED pipeRest

\* analyst_report (lines 183-194), called by `analyst report` (383-391) and
\* as step 3 of analyst_run_pipeline (254-259); main prints what it returns.
\* The function found is called with input_path, output_path and template
\* as keyword arguments: one it does not take is a TypeError
AnalystReport ==
    /\ fpc = "report"
    /\ LET fn == TryGetAttr(REPORT_CALLABLES, REPORT_NAMES)
       IN IF fn = ""
          THEN /\ f_err' = "AttributeError"
               /\ fpc' = "except"
               /\ UNCHANGED <<f_steps, f_exit, f_stdout>>
          ELSE IF fn = "render_report" /\ ~(REPORT_KWARGS \subseteq RENDER_REPORT_PARAMS)
               THEN /\ f_err' = "TypeError"
                    /\ fpc' = "except"
                    /\ UNCHANGED <<f_steps, f_exit, f_stdout>>
               ELSE /\ f_steps' = Append(f_steps, "report")
                    /\ f_stdout' = argv.output
                    /\ f_exit' = 0
                    /\ fpc' = "exit"
                    /\ f_err' = f_err
    /\ UNCHANGED argv
    /\ UNCHANGED pipeRest

\* lines 408-412: the exception is logged; with -vv it is raised again,
\* else main returns 1
HandleException ==
    /\ fpc = "except"
    /\ IF argv.verbose >= 2
       THEN fpc' = "raised" /\ f_exit' = f_exit
       ELSE fpc' = "exit" /\ f_exit' = 1
    /\ UNCHANGED <<argv, f_steps, f_err, f_stdout>>
    /\ UNCHANGED pipeRest

PipeNext ==
    \/ Dispatch \/ ConfigShow \/ AnalystFetch \/ AnalystSummarize
    \/ AnalystReport \/ HandleException

SpecFinops == PipeInit /\ [][PipeNext]_vars

\* finops.main has returned or let an exception through
PipeDone == fpc \in {"exit", "raised"}

\* C17: `analyst run` against this repository's modules runs fetch, then
\* summarize, then report, each once and each after the previous finished
\* without error, prints the report path and returns 0
C17_RunExecutesThreeSteps ==
    (PipeDone /\ argv.cmd = "analyst run") =>
        /\ f_steps = <<"fetch", "summarize", "report">>
        /\ f_err = ""
        /\ f_stdout = argv.output
        /\ f_exit = 0
====
